---- MODULE Spec2Model ----
(***************************************************************************)
(* IECorePreview::TaskMutex (include/Gaffer/Private/IECorePreview/         *)
(* TaskMutex.h) : a reader/writer mutex whose waiters may collaborate on   *)
(* the TBB tasks spawned by the holder through ScopedLock::execute().      *)
(*                                                                         *)
(* One TaskMutex is shared by NumThreads threads.  Every thread owns two   *)
(* ScopedLock objects: the "outer" one, used at the top level of the       *)
(* thread, and the "inner" one, used in a nested scope (inside a task run  *)
(* on behalf of execute(), or while the outer lock is held).  Each shared  *)
(* memory access of the header is one step of the model.                   *)
(***************************************************************************)
EXTENDS Integers, FiniteSets, Sequences, TLC

\* ------------------------------------------------------------------ bounds
NumThreads == 3   \* threads using the mutex
MaxOps     == 3   \* acquire()/tryAcquire() calls made over a run
MaxExec    == 2   \* ExecutionStates created by execute() over a run
MaxTasks   == 2   \* tasks run into one task group: f and those it spawns
MaxFairOps == 2   \* acquire()/tryAcquire() calls made over a run of FairSpec

Threads  == 1 .. NumThreads
StateIds == 1 .. MaxExec
Frames   == {"outer", "inner"}
None     == 0

VARIABLES
    assertFailed,            \* an assert() of the header has met a false condition
    m_mutex,                 \* TaskMutex::m_mutex, the tbb::spin_rw_mutex state word
    m_executionStateMutex,   \* TaskMutex::m_executionStateMutex : holder or None
    m_executionState,        \* TaskMutex::m_executionState : a state id or None
    executionStates,         \* the ExecutionState objects made so far, by id
    created,                 \* number of ExecutionStates made so far
    lock,                    \* lock[t][f] : the ScopedLock objects
    pc,                      \* pc[t][f]   : where the call on lock[t][f] stands
    loc,                     \* loc[t][f]  : arguments and locals of that call
    task,                    \* task[t]    : the state whose task t is running, or None
    ops                      \* acquire()/tryAcquire() calls that may still be made

vars == << assertFailed, m_mutex, m_executionStateMutex, m_executionState,
           executionStates, created, lock, pc, loc, task, ops >>

\* ------------------------------------------------------- tbb::spin_rw_mutex
\* The state word of tbb::spin_rw_mutex : WRITER bit, WRITER_PENDING bit and
\* the count of readers.
InternalMutex == [ writer |-> FALSE, pending |-> FALSE, readers |-> 0 ]

\* scoped_lock::try_acquire( m, write ) succeeds on this state word.
try_acquire_reader_ignores_writer(m, write) ==
    IF write THEN ~m.writer /\ m.readers = 0 ELSE ~m.pending
try_acquire(m, write) ==
    IF write THEN ~m.writer /\ m.readers = 0
             ELSE ~m.writer /\ ~m.pending

\* The state word after a successful try_acquire.
acquired(m, write) ==
    IF write THEN [ writer |-> TRUE, pending |-> FALSE, readers |-> 0 ]
             ELSE [ m EXCEPT !.readers = @ + 1 ]

\* scoped_lock::release() : a writer clears WRITER and WRITER_PENDING, a
\* reader leaves the count.
m_lock_release_keeps_reader(m, is_writer) ==
    IF is_writer THEN [ m EXCEPT !.writer = FALSE, !.pending = FALSE ] ELSE m
m_lock_release(m, is_writer) ==
    IF is_writer THEN [ m EXCEPT !.writer = FALSE, !.pending = FALSE ]
                 ELSE [ m EXCEPT !.readers = @ - 1 ]

\* ----------------------------------------------------------- ExecutionState
\* ExecutionState() : an empty arena and task group, an observer with an
\* empty thread set.  refs is the use count of the shared_ptr.
ExecutionState ==
    [ alive |-> TRUE, refs |-> 1, pending |-> 0, running |-> 0, spawned |-> 0,
      failed |-> FALSE, m_threadIdSet |-> {} ]

\* The slot of a state that was never made.
NoState == [ ExecutionState EXCEPT !.alive = FALSE, !.refs = 0 ]

\* ArenaObserver::containsThisThread()
containsThisThread(s, t) == t \in executionStates[s].m_threadIdSet

\* One shared_ptr to state s is dropped; the last one destroys the state.
Dropped_destroys(es, s) == [ es EXCEPT ![s] = NoState ]
Dropped(es, s) ==
    IF es[s].refs > 1 THEN [ es EXCEPT ![s].refs = @ - 1 ]
                      ELSE [ es EXCEPT ![s] = NoState ]

\* The task group of state s has no task left or running.
task_group_ignores_running(s) ==
    executionStates[s].pending = 0
taskGroupEmpty(s) ==
    executionStates[s].pending = 0 /\ executionStates[s].running = 0

\* --------------------------------------------------------------- ScopedLock
\* ScopedLock() : m_mutex( nullptr ), m_writer( false ), m_recursive( false ).
\* m_lock, the spin_rw_mutex::scoped_lock, holds the internal mutex or not; it
\* holds it in the mode m_writer tells.
ScopedLock ==
    [ m_mutex |-> FALSE, m_writer |-> FALSE, m_recursive |-> FALSE,
      m_lock |-> FALSE ]

Locals ==
    [ write |-> FALSE, blocking |-> FALSE, acceptWork |-> FALSE,
      executionState |-> None, ret |-> "none" ]

InitWith(budget) ==
    /\ assertFailed = FALSE
    /\ m_mutex = InternalMutex
    /\ m_executionStateMutex = None
    /\ m_executionState = None
    /\ executionStates = [ s \in StateIds |-> NoState ]
    /\ created = 0
    /\ lock = [ t \in Threads |-> [ f \in Frames |-> ScopedLock ] ]
    /\ pc = [ t \in Threads |-> [ f \in Frames |-> "idle" ] ]
    /\ loc = [ t \in Threads |-> [ f \in Frames |-> Locals ] ]
    /\ task = [ t \in Threads |-> None ]
    /\ ops = budget

Init == InitWith(MaxOps)

\* assert( cond ) : a false condition is recorded.  The debug build aborts
\* there; the NDEBUG build, where assert() is compiled out, carries on, and
\* so does the model.
assertion(cond) == assertFailed' = (assertFailed \/ ~cond)

\* The thread is inside arena.execute() of the outer call, not running a task.
InWait(t) == pc[t]["outer"] \in {"donate", "exWait", "worker"}

\* The thread has not used the mutex yet, or has left no trace of it.
Pristine(t) ==
    /\ lock[t] = [ f \in Frames |-> ScopedLock ]
    /\ pc[t] = [ f \in Frames |-> "idle" ]
    /\ loc[t] = [ f \in Frames |-> Locals ]
    /\ task[t] = None
    /\ \A s \in StateIds : ~containsThisThread(s, t)

\* Threads are interchangeable, so of the threads that have left no trace
\* the one with the least id is taken to be the next one to come.
NextToCome(t) ==
    Pristine(t) => \A u \in Threads : u < t => ~Pristine(u)

\* ----------------------------------------------------- acquire / tryAcquire
\* acquire( mutex, write, acceptWork ), tryAcquire( mutex, write ) or
\* acquireOr( mutex, write, workNotifier ) is called on an idle ScopedLock.
\* blocking tells acquire(), which calls acquireOr until it returns true,
\* from the single call of acquireOr made by tryAcquire() or by the client;
\* acceptWork is what the notifier passed to acquireOr returns : acceptWork
\* for acquire(), false for tryAcquire(), either for a client's notifier.
\* The inner lock is used inside a task, or (with a single call of
\* acquireOr) in a scope nested in the one that holds the outer lock.
Call(t, f, blocking, write, acceptWork) ==
    /\ pc[t][f] = "idle"
    /\ ~lock[t][f].m_mutex
    /\ ops > 0
    /\ NextToCome(t)
    /\ IF f = "outer"
          THEN pc[t]["inner"] = "idle"
          ELSE \/ task[t] # None
               \/ pc[t]["outer"] = "held" /\ ~blocking
    /\ ops' = ops - 1
    /\ pc' = [ pc EXCEPT ![t][f] = "try" ]
    /\ loc' = [ loc EXCEPT ![t][f] =
                  [ Locals EXCEPT !.write = write, !.blocking = blocking,
                                  !.acceptWork = acceptWork ] ]
    /\ UNCHANGED << assertFailed, m_mutex, m_executionStateMutex,
                    m_executionState, executionStates, created, lock, task >>

\* acquireOr() returns false : acquire() pauses and calls it again,
\* tryAcquire() returns false to its caller, and so does acquireOr() called
\* by the client.
ReturnFalse(t, f) ==
    IF loc[t][f].blocking
       THEN /\ pc' = [ pc EXCEPT ![t][f] = "try" ]
            /\ loc' = [ loc EXCEPT ![t][f].executionState = None ]
       ELSE /\ pc' = [ pc EXCEPT ![t][f] = "idle" ]
            /\ loc' = [ loc EXCEPT ![t][f] = [ Locals EXCEPT !.ret = "false" ] ]

\* acquireOr() returns true.
ReturnTrue(t, f) ==
    /\ pc' = [ pc EXCEPT ![t][f] = "held" ]
    /\ loc' = [ loc EXCEPT ![t][f] = [ Locals EXCEPT !.ret = "true" ] ]

\* acquireOr : m_lock.try_acquire( mutex.m_mutex, write ).
TryLock(t, f) ==
    /\ pc[t][f] = "try"
    /\ IF try_acquire(m_mutex, loc[t][f].write)
          THEN /\ m_mutex' = acquired(m_mutex, loc[t][f].write)
               /\ lock' = [ lock EXCEPT ![t][f] =
                             [ m_mutex |-> TRUE, m_recursive |-> FALSE,
                               m_writer |-> loc[t][f].write,
                               m_lock |-> TRUE ] ]
               /\ ReturnTrue(t, f)
          ELSE /\ pc' = [ pc EXCEPT ![t][f] = "msxWait" ]
               /\ UNCHANGED << m_mutex, lock, loc >>
    /\ UNCHANGED << assertFailed, m_executionStateMutex, m_executionState,
                    executionStates, created, task, ops >>

\* acquireOr : executionStateLock( mutex.m_executionStateMutex ).
LockExecutionState_skips(t, f) ==
    /\ pc[t][f] = "msxWait"
    /\ pc' = [ pc EXCEPT ![t][f] = "inspect" ]
    /\ UNCHANGED << assertFailed, m_mutex, m_executionStateMutex,
                    m_executionState, executionStates, created, lock, loc,
                    task, ops >>
LockExecutionState(t, f) ==
    /\ pc[t][f] = "msxWait"
    /\ m_executionStateMutex = None
    /\ m_executionStateMutex' = t
    /\ pc' = [ pc EXCEPT ![t][f] = "inspect" ]
    /\ UNCHANGED << assertFailed, m_mutex, m_executionState, executionStates,
                    created, lock, loc, task, ops >>

\* ArenaObserver::on_scheduler_entry, run as thread t enters the arena of s.
on_scheduler_entry_forgets(es, s, t) == es
on_scheduler_entry(es, s, t) ==
    [ es EXCEPT ![s].m_threadIdSet = @ \cup {t} ]

\* ArenaObserver::on_scheduler_exit, run as thread t leaves the arena of s.
on_scheduler_exit_forgets(es, s, t) == es
on_scheduler_exit(es, s, t) ==
    [ es EXCEPT ![s].m_threadIdSet = @ \ {t} ]

\* acquireOr, under m_executionStateMutex : the recursive grant, the call of
\* workNotifier, the copy of the shared pointer.  The scoped lock on
\* m_executionStateMutex is released on each way out.
recursion_granted_outside_arena(t) ==
    m_executionState # None
recursionGranted(t) ==
    m_executionState # None /\ containsThisThread(m_executionState, t)

\* workNotifier( workAvailable ) : acquire() passes a closure that returns
\* acceptWork, tryAcquire() one that returns false, and the client of
\* acquireOr() one of its own, whose answer acceptWork stands for.
workNotifier_accepts(t, f, workAvailable) == TRUE
workNotifier_when_work(t, f, workAvailable) == workAvailable
workNotifier(t, f, workAvailable) == loc[t][f].acceptWork

Inspect_grants_requested_mode(t, f) ==
    /\ pc[t][f] = "inspect"
    /\ m_executionStateMutex = t
    /\ m_executionStateMutex' = None
    /\ IF recursionGranted(t)
          THEN /\ lock' = [ lock EXCEPT ![t][f].m_mutex = TRUE,
                                        ![t][f].m_recursive = TRUE,
                                        ![t][f].m_writer = loc[t][f].write ]
               /\ ReturnTrue(t, f)
               /\ UNCHANGED executionStates
          ELSE LET workAvailable == m_executionState # None IN
               IF ~workNotifier(t, f, workAvailable) \/ ~workAvailable
                  THEN /\ ReturnFalse(t, f)
                       /\ UNCHANGED << lock, executionStates >>
                  ELSE /\ loc' = [ loc EXCEPT
                                     ![t][f].executionState = m_executionState ]
                       /\ executionStates' =
                            [ executionStates EXCEPT
                                ![m_executionState].refs = @ + 1 ]
                       /\ pc' = [ pc EXCEPT ![t][f] = "arenaEnter" ]
                       /\ UNCHANGED lock
    /\ UNCHANGED << assertFailed, m_mutex, m_executionState, created, task,
                    ops >>
Inspect(t, f) ==
    /\ pc[t][f] = "inspect"
    /\ m_executionStateMutex = t
    /\ m_executionStateMutex' = None
    /\ IF recursionGranted(t)
          THEN /\ lock' = [ lock EXCEPT ![t][f].m_mutex = TRUE,
                                        ![t][f].m_recursive = TRUE,
                                        ![t][f].m_writer = FALSE ]
               /\ ReturnTrue(t, f)
               /\ UNCHANGED executionStates
          ELSE LET workAvailable == m_executionState # None IN
               IF ~workNotifier(t, f, workAvailable) \/ ~workAvailable
                  THEN /\ ReturnFalse(t, f)
                       /\ UNCHANGED << lock, executionStates >>
                  ELSE /\ loc' = [ loc EXCEPT
                                     ![t][f].executionState = m_executionState ]
                       /\ executionStates' =
                            [ executionStates EXCEPT
                                ![m_executionState].refs = @ + 1 ]
                       /\ pc' = [ pc EXCEPT ![t][f] = "arenaEnter" ]
                       /\ UNCHANGED lock
    /\ UNCHANGED << assertFailed, m_mutex, m_executionState, created, task,
                    ops >>

\* acquireOr : executionState->arena.execute( ... ), the thread joins the
\* arena and the observer is told.
ArenaEnter(t, f) ==
    LET s == loc[t][f].executionState IN
    /\ pc[t][f] = "arenaEnter"
    /\ assertion(~containsThisThread(s, t))
    /\ executionStates' = on_scheduler_entry(executionStates, s, t)
    /\ pc' = [ pc EXCEPT ![t][f] = "donate" ]
    /\ UNCHANGED << m_mutex, m_executionStateMutex, m_executionState,
                    created, lock, loc, task, ops >>

\* acquireOr : executionState->taskGroup.wait() returns, the thread leaves
\* the arena, the local shared pointer is destroyed and false is returned.
DonateDone(t, f) ==
    LET s == loc[t][f].executionState IN
    /\ pc[t][f] = "donate"
    /\ taskGroupEmpty(s)
    /\ assertion(containsThisThread(s, t))
    /\ executionStates' =
         Dropped(on_scheduler_exit(executionStates, s, t), s)
    /\ ReturnFalse(t, f)
    /\ UNCHANGED << m_mutex, m_executionStateMutex, m_executionState,
                    created, lock, task, ops >>

\* ------------------------------------------------------------------ release
\* release() : the internal lock is released unless the lock is recursive,
\* and m_mutex is forgotten.  m_writer and m_recursive are left as they are.
release_recursive_too(l, m) ==
    m_lock_release(m, l.m_writer)
released(l, m) ==
    IF ~l.m_recursive THEN m_lock_release(m, l.m_writer) ELSE m

\* release() is called, or ~ScopedLock() calls it as the scope is left
\* (also when an exception leaves execute()).
Release(t, f) ==
    /\ \/ pc[t][f] = "held"
       \/ f = "outer" /\ pc[t][f] = "raised"
    /\ f = "outer" => pc[t]["inner"] = "idle"
    /\ lock[t][f].m_mutex
    /\ m_mutex' = released(lock[t][f], m_mutex)
    /\ lock' = [ lock EXCEPT ![t][f].m_mutex = FALSE,
                             ![t][f].m_lock = @ /\ lock[t][f].m_recursive ]
    /\ pc' = [ pc EXCEPT ![t][f] = "idle" ]
    /\ loc' = [ loc EXCEPT ![t][f] = Locals ]
    /\ UNCHANGED << assertFailed, m_executionStateMutex, m_executionState,
                    executionStates, created, task, ops >>

\* ---------------------------------------------------------- upgradeToWriter
\* upgradeToWriter() : m_writer = true, then m_lock.upgrade_to_writer().  The
\* upgrade claims WRITER and WRITER_PENDING when no writer is pending or this
\* is the only reader; otherwise it releases the read lock and acquires anew.
UpgradeToWriter_always_in_place(t) ==
    /\ pc[t]["outer"] = "held"
    /\ pc[t]["inner"] = "idle"
    /\ lock[t]["outer"].m_mutex
    /\ ~lock[t]["outer"].m_writer
    /\ ~lock[t]["outer"].m_recursive
    /\ lock' = [ lock EXCEPT ![t]["outer"].m_writer = TRUE ]
    /\ m_mutex' = [ m_mutex EXCEPT !.writer = TRUE, !.pending = TRUE ]
    /\ pc' = [ pc EXCEPT ![t]["outer"] = "upgSpin" ]
    /\ UNCHANGED << assertFailed, m_executionStateMutex, m_executionState,
                    executionStates, created, loc, task, ops >>
UpgradeToWriter(t) ==
    /\ pc[t]["outer"] = "held"
    /\ pc[t]["inner"] = "idle"
    /\ lock[t]["outer"].m_mutex
    /\ ~lock[t]["outer"].m_writer
    /\ ~lock[t]["outer"].m_recursive
    /\ lock' = [ lock EXCEPT ![t]["outer"].m_writer = TRUE ]
    /\ IF m_mutex.readers = 1 \/ ~m_mutex.pending
          THEN /\ m_mutex' = [ m_mutex EXCEPT !.writer = TRUE, !.pending = TRUE ]
               /\ pc' = [ pc EXCEPT ![t]["outer"] = "upgSpin" ]
          ELSE /\ m_mutex' = [ m_mutex EXCEPT !.readers = @ - 1 ]
               /\ pc' = [ pc EXCEPT ![t]["outer"] = "upgSlow" ]
    /\ UNCHANGED << assertFailed, m_executionStateMutex, m_executionState,
                    executionStates, created, loc, task, ops >>

\* upgrade_to_writer() : the upgrader waits for the other readers to leave
\* and returns true.
UpgradeInPlace_no_wait(t) ==
    /\ pc[t]["outer"] = "upgSpin"
    /\ m_mutex' = [ m_mutex EXCEPT !.readers = @ - 1, !.pending = FALSE ]
    /\ pc' = [ pc EXCEPT ![t]["outer"] = "held" ]
    /\ loc' = [ loc EXCEPT ![t]["outer"].ret = "upgraded" ]
    /\ UNCHANGED << assertFailed, m_executionStateMutex, m_executionState,
                    executionStates, created, lock, task, ops >>
UpgradeInPlace(t) ==
    /\ pc[t]["outer"] = "upgSpin"
    /\ m_mutex.readers = 1
    /\ m_mutex' = [ m_mutex EXCEPT !.readers = 0, !.pending = FALSE ]
    /\ pc' = [ pc EXCEPT ![t]["outer"] = "held" ]
    /\ loc' = [ loc EXCEPT ![t]["outer"].ret = "upgraded" ]
    /\ UNCHANGED << assertFailed, m_executionStateMutex, m_executionState,
                    executionStates, created, lock, task, ops >>

\* upgrade_to_writer() : having released the read lock, the upgrader marks a
\* writer as pending, acquires the write lock once it is free and returns
\* false.
UpgradeReacquire(t) ==
    /\ pc[t]["outer"] = "upgSlow"
    /\ IF ~m_mutex.writer /\ m_mutex.readers = 0
          THEN /\ m_mutex' = acquired(m_mutex, TRUE)
               /\ pc' = [ pc EXCEPT ![t]["outer"] = "held" ]
               /\ loc' = [ loc EXCEPT ![t]["outer"].ret = "reacquired" ]
          ELSE /\ ~m_mutex.pending
               /\ m_mutex' = [ m_mutex EXCEPT !.pending = TRUE ]
               /\ UNCHANGED << pc, loc >>
    /\ UNCHANGED << assertFailed, m_executionStateMutex, m_executionState,
                    executionStates, created, lock, task, ops >>

\* ------------------------------------------------------------------ execute
\* execute( f ) is called by the holder of a write lock :
\* executionStateLock( m_mutex->m_executionStateMutex ).
ExecuteLock(t) ==
    /\ pc[t]["outer"] = "held"
    /\ pc[t]["inner"] = "idle"
    /\ lock[t]["outer"].m_mutex
    /\ lock[t]["outer"].m_writer
    /\ ~lock[t]["outer"].m_recursive
    /\ created < MaxExec
    /\ m_executionStateMutex = None
    /\ m_executionStateMutex' = t
    /\ pc' = [ pc EXCEPT ![t]["outer"] = "exPublish" ]
    /\ UNCHANGED << assertFailed, m_mutex, m_executionState, executionStates,
                    created, lock, loc, task, ops >>

\* execute : assert( !m_executionState ), m_executionState =
\* make_shared<ExecutionState>(), executionStateLock.release().  The pointer
\* that was in the slot is dropped by the assignment.
ExecutePublish_keeps_executionStateLock(t) ==
    LET s == created + 1 IN
    /\ pc[t]["outer"] = "exPublish"
    /\ m_executionStateMutex = t
    /\ assertion(m_executionState = None)
    /\ executionStates' =
         [ (IF m_executionState # None
               THEN Dropped(executionStates, m_executionState)
               ELSE executionStates)
           EXCEPT ![s] = ExecutionState ]
    /\ m_executionState' = s
    /\ created' = s
    /\ m_executionStateMutex' = t
    /\ pc' = [ pc EXCEPT ![t]["outer"] = "exEnter" ]
    /\ UNCHANGED << m_mutex, lock, loc, task, ops >>
ExecutePublish(t) ==
    LET s == created + 1 IN
    /\ pc[t]["outer"] = "exPublish"
    /\ m_executionStateMutex = t
    /\ assertion(m_executionState = None)
    /\ executionStates' =
         [ (IF m_executionState # None
               THEN Dropped(executionStates, m_executionState)
               ELSE executionStates)
           EXCEPT ![s] = ExecutionState ]
    /\ m_executionState' = s
    /\ created' = s
    /\ m_executionStateMutex' = None
    /\ pc' = [ pc EXCEPT ![t]["outer"] = "exEnter" ]
    /\ UNCHANGED << m_mutex, lock, loc, task, ops >>

\* execute : m_executionState->arena.execute( ... ), the writer joins the
\* arena, and taskGroup.run( f ) puts f in the task group.
ExecuteEnter(t) ==
    LET s == m_executionState IN
    /\ pc[t]["outer"] = "exEnter"
    /\ assertion(~containsThisThread(s, t))
    /\ executionStates' =
         [ on_scheduler_entry(executionStates, s, t) EXCEPT
             ![s].pending = @ + 1, ![s].spawned = @ + 1 ]
    /\ pc' = [ pc EXCEPT ![t]["outer"] = "exWait" ]
    /\ UNCHANGED << m_mutex, m_executionStateMutex, m_executionState,
                    created, lock, loc, task, ops >>

\* The exception of a task leaves taskGroup.wait(), arena.execute() and
\* execute() : the statements of execute() after arena.execute() are skipped.
after_wait_always_clears(failed) == "exRelock"
afterWait(failed) == IF failed THEN "raised" ELSE "exRelock"

\* execute : taskGroup.wait() returns or throws once no task of the group is
\* left, and the writer leaves the arena.
ExecuteWaitDone(t) ==
    LET s == m_executionState IN
    /\ pc[t]["outer"] = "exWait"
    /\ task[t] = None
    /\ taskGroupEmpty(s)
    /\ assertion(containsThisThread(s, t))
    /\ executionStates' = on_scheduler_exit(executionStates, s, t)
    /\ pc' = [ pc EXCEPT ![t]["outer"] =
                 afterWait(executionStates[s].failed) ]
    /\ UNCHANGED << m_mutex, m_executionStateMutex, m_executionState,
                    created, lock, loc, task, ops >>

\* execute : executionStateLock.acquire( m_mutex->m_executionStateMutex ).
ExecuteRelock(t) ==
    /\ pc[t]["outer"] = "exRelock"
    /\ m_executionStateMutex = None
    /\ m_executionStateMutex' = t
    /\ pc' = [ pc EXCEPT ![t]["outer"] = "exClear" ]
    /\ UNCHANGED << assertFailed, m_mutex, m_executionState, executionStates,
                    created, lock, loc, task, ops >>

\* execute : m_executionState = nullptr, and execute() returns, which
\* releases executionStateLock.
ExecuteClear(t) ==
    /\ pc[t]["outer"] = "exClear"
    /\ m_executionStateMutex = t
    /\ executionStates' =
          IF m_executionState # None
             THEN Dropped(executionStates, m_executionState)
             ELSE executionStates
    /\ m_executionState' = None
    /\ m_executionStateMutex' = None
    /\ pc' = [ pc EXCEPT ![t]["outer"] = "held" ]
    /\ loc' = [ loc EXCEPT ![t]["outer"].ret = "executed" ]
    /\ UNCHANGED << assertFailed, m_mutex, created, lock, task, ops >>

\* -------------------------------------------------------------------- tasks
\* The arena the thread is in through its outer call : the writer reads
\* m_mutex->m_executionState, a donor uses its copy of the shared pointer.
ArenaOf(t) ==
    IF pc[t]["outer"] = "exWait" THEN m_executionState
                                 ELSE loc[t]["outer"].executionState

\* A thread waiting in the arena takes a task of the task group and runs it.
TaskStart(t) ==
    LET s == ArenaOf(t) IN
    /\ InWait(t)
    /\ task[t] = None
    /\ executionStates[s].pending > 0
    /\ executionStates' = [ executionStates EXCEPT ![s].pending = @ - 1,
                                                   ![s].running = @ + 1 ]
    /\ task' = [ task EXCEPT ![t] = s ]
    /\ UNCHANGED << assertFailed, m_mutex, m_executionStateMutex,
                    m_executionState, created, lock, pc, loc, ops >>

\* The running task spawns another task into the task group.
TaskSpawn(t) ==
    LET s == task[t] IN
    /\ s # None
    /\ pc[t]["inner"] = "idle"
    /\ ~executionStates[s].failed
    /\ executionStates[s].spawned < MaxTasks
    /\ executionStates' = [ executionStates EXCEPT ![s].pending = @ + 1,
                                                   ![s].spawned = @ + 1 ]
    /\ UNCHANGED << assertFailed, m_mutex, m_executionStateMutex,
                    m_executionState, created, lock, pc, loc, task, ops >>

\* The running task returns.
TaskEnd(t) ==
    LET s == task[t] IN
    /\ s # None
    /\ pc[t]["inner"] = "idle"
    /\ executionStates' = [ executionStates EXCEPT ![s].running = @ - 1 ]
    /\ task' = [ task EXCEPT ![t] = None ]
    /\ UNCHANGED << assertFailed, m_mutex, m_executionStateMutex,
                    m_executionState, created, lock, pc, loc, ops >>

\* The running task throws : the task group is cancelled, so the tasks not
\* yet started are dropped, and wait() will rethrow on the writer.
TaskRaise(t) ==
    LET s == task[t] IN
    /\ s # None
    /\ pc[t]["inner"] = "idle"
    /\ executionStates' = [ executionStates EXCEPT ![s].running = @ - 1,
                                                   ![s].pending = 0,
                                                   ![s].failed = TRUE ]
    /\ task' = [ task EXCEPT ![t] = None ]
    /\ UNCHANGED << assertFailed, m_mutex, m_executionStateMutex,
                    m_executionState, created, lock, pc, loc, ops >>

\* An idle thread of the TBB pool is pulled into an arena that has tasks.
WorkerEnter(t, s) ==
    /\ pc[t]["outer"] = "idle"
    /\ pc[t]["inner"] = "idle"
    /\ executionStates[s].alive
    /\ executionStates[s].pending > 0
    /\ NextToCome(t)
    /\ assertion(~containsThisThread(s, t))
    /\ executionStates' = on_scheduler_entry(executionStates, s, t)
    /\ pc' = [ pc EXCEPT ![t]["outer"] = "worker" ]
    /\ loc' = [ loc EXCEPT ![t]["outer"] =
                  [ Locals EXCEPT !.executionState = s ] ]
    /\ UNCHANGED << m_mutex, m_executionStateMutex, m_executionState,
                    created, lock, task, ops >>

\* The worker finds no task left and leaves the arena.
WorkerExit(t) ==
    LET s == loc[t]["outer"].executionState IN
    /\ pc[t]["outer"] = "worker"
    /\ task[t] = None
    /\ executionStates[s].pending = 0
    /\ assertion((executionStates[s].alive => containsThisThread(s, t)))
    /\ executionStates' =
         IF executionStates[s].alive
            THEN on_scheduler_exit(executionStates, s, t)
            ELSE executionStates
    /\ pc' = [ pc EXCEPT ![t]["outer"] = "idle" ]
    /\ loc' = [ loc EXCEPT ![t]["outer"] = Locals ]
    /\ UNCHANGED << m_mutex, m_executionStateMutex, m_executionState,
                    created, lock, task, ops >>

\* --------------------------------------------------------------------- Next
Step(t) ==
    \/ \E f \in Frames, blocking, write, acceptWork \in BOOLEAN :
          Call(t, f, blocking, write, acceptWork)
    \/ \E f \in Frames : TryLock(t, f)
    \/ \E f \in Frames : LockExecutionState(t, f)
    \/ \E f \in Frames : Inspect(t, f)
    \/ \E f \in Frames : ArenaEnter(t, f)
    \/ \E f \in Frames : DonateDone(t, f)
    \/ \E f \in Frames : Release(t, f)
    \/ UpgradeToWriter(t)
    \/ UpgradeInPlace(t)
    \/ UpgradeReacquire(t)
    \/ ExecuteLock(t)
    \/ ExecutePublish(t)
    \/ ExecuteEnter(t)
    \/ ExecuteWaitDone(t)
    \/ ExecuteRelock(t)
    \/ ExecuteClear(t)
    \/ TaskStart(t)
    \/ TaskSpawn(t)
    \/ TaskEnd(t)
    \/ TaskRaise(t)
    \/ \E s \in StateIds : WorkerEnter(t, s)
    \/ WorkerExit(t)

Next == \E t \in Threads : Step(t)

Spec == Init /\ [][Next]_vars

\* Fair scheduling : a thread that can take a step eventually takes one.
\* Nothing more is taken for granted : m_executionStateMutex is a
\* tbb::spin_mutex, a test-and-set lock without a queue, so a thread that
\* spins on it runs (its failed attempts change nothing) but gets the mutex
\* only if it finds it free at the time of an attempt.
Fairness ==
    \A t \in Threads : WF_vars(Step(t))

FairInit == InitWith(MaxFairOps)

FairSpec == FairInit /\ [][Next]_vars /\ Fairness

\* ------------------------------------------------------------ what is held
Handles == Threads \X Frames

\* The ScopedLock holds the internal mutex in write mode : its call has
\* returned with a write lock.
HoldsWrite(t, f) ==
    /\ lock[t][f].m_lock
    /\ lock[t][f].m_writer
    /\ pc[t][f] \notin {"upgSpin", "upgSlow"}

\* The ScopedLock holds the internal mutex in read mode; it still does while
\* upgrade_to_writer() waits for the other readers.
HoldsRead(t, f) ==
    /\ lock[t][f].m_lock
    /\ ~lock[t][f].m_writer \/ pc[t][f] = "upgSpin"

\* The ScopedLock holds a recursive grant.
HoldsRecursive(t, f) == lock[t][f].m_mutex /\ lock[t][f].m_recursive

\* The thread is inside execute(), from the publication of the state on.
InExecute(t) ==
    pc[t]["outer"] \in {"exEnter", "exWait", "exRelock", "exClear"}

Writers == { h \in Handles : HoldsWrite(h[1], h[2]) }
Readers == { h \in Handles : HoldsRead(h[1], h[2]) }

\* ------------------------------------------------------------------- claims
\* C1 : at most one ScopedLock holds the internal lock in write mode, and no
\* non-recursive reader ScopedLock holds it while a writer ScopedLock does.
C1_MutualExclusion ==
    /\ Cardinality(Writers) <= 1
    /\ Writers # {} => Readers = {}

\* A writer holds the lock and a reader has just been refused.
C1_Witness ==
    \E t, u \in Threads :
       /\ t # u
       /\ HoldsWrite(t, "outer")
       /\ pc[u]["outer"] = "msxWait"
       /\ ~loc[u]["outer"].write

\* C2 : if the closure given to execute raises, then once the error has left
\* execute the slot m_executionState is none.
C2_ClearedAfterRaise ==
    \A t \in Threads : pc[t]["outer"] = "raised" => m_executionState = None

\* C3 : m_executionState is non-none only if some thread holds the internal
\* lock in write mode and is inside execute (an exception still on its way
\* out of execute counts as inside).
C3_StateOnlyInExecute ==
    m_executionState # None =>
       \E t \in Threads :
          /\ HoldsWrite(t, "outer")
          /\ InExecute(t) \/ pc[t]["outer"] = "raised"

\* C4 : a thread that is running a task inside the arena of the published
\* ExecutionState and locks the same mutex with a fresh ScopedLock fails the
\* internal try_acquire, is granted recursion under m_executionStateMutex,
\* and never donates nor is refused.
C4_ArenaThreadRecursion ==
    \A t \in Threads :
       task[t] # None =>
          /\ m_executionState = task[t]
          /\ containsThisThread(task[t], t)
          /\ pc[t]["inner"] = "try" =>
                ~try_acquire(m_mutex, loc[t]["inner"].write)
          /\ pc[t]["inner"] = "inspect" => recursionGranted(t)
          /\ pc[t]["inner"] = "held" => HoldsRecursive(t, "inner")
          /\ pc[t]["inner"] \in {"idle", "try", "msxWait", "inspect", "held"}

\* A donor runs a task and holds a recursive grant taken with acquire().
C4_Witness ==
    \E t \in Threads :
       /\ pc[t]["outer"] = "donate"
       /\ task[t] # None
       /\ pc[t]["inner"] = "held"
       /\ lock[t]["inner"].m_recursive
       /\ \E w \in Threads : pc[w]["outer"] = "exWait"

\* C5 : a recursive grant is held only by a thread in the thread set of the
\* published state's observer, and only while some thread holds the internal
\* lock in write mode inside execute; no other lock is recursive.
C5_RecursionOnlyInArena ==
    \A h \in Handles :
       HoldsRecursive(h[1], h[2]) =>
          /\ m_executionState # None
          /\ containsThisThread(m_executionState, h[1])
          /\ ~lock[h[1]][h[2]].m_lock
          /\ \E w \in Threads : HoldsWrite(w, "outer") /\ pc[w]["outer"] = "exWait"

\* The writer runs f itself and holds a recursive grant, while a thread that
\* holds nothing is being refused.
C5_Witness ==
    \E t, u \in Threads :
       /\ pc[t]["outer"] = "exWait"
       /\ HoldsRecursive(t, "inner")
       /\ u # t
       /\ pc[u]["outer"] = "inspect"
       /\ ~HoldsRecursive(u, "outer")

\* C6 : tryAcquire never enters an arena nor waits on a task group, and the
\* steps of a call that returns false leave the ScopedLock idle and the
\* internal lock and m_executionState as they were.
C6_TryAcquireStep ==
    \A h \in Handles :
       LET t == h[1]
           f == h[2]
       IN  ( /\ ~loc[t][f].blocking
             /\ ~loc[t][f].acceptWork
             /\ pc[t][f] \in {"try", "msxWait", "inspect"} ) =>
              /\ pc'[t][f] \in {"try", "msxWait", "inspect", "held", "idle"}
              /\ pc'[t][f] = "idle" =>
                    /\ loc'[t][f].ret = "false"
                    /\ ~lock'[t][f].m_mutex
                    /\ ~lock'[t][f].m_lock
              /\ ( pc'[t][f] # pc[t][f] /\ pc'[t][f] # "held" ) =>
                    /\ m_mutex' = m_mutex
                    /\ m_executionState' = m_executionState
                    /\ executionStates' = executionStates

C6_TryAcquireNeverDonates == [][C6_TryAcquireStep]_vars

\* tryAcquire has returned false while a writer was inside execute with its
\* ExecutionState published.
C6_Witness ==
    \E t, w \in Threads :
       /\ pc[t]["outer"] = "idle"
       /\ loc[t]["outer"].ret = "false"
       /\ pc[w]["outer"] = "exWait"
       /\ m_executionState # None

\* The state word of the internal mutex is the one its present holders make.
MutexMatchesHolders ==
    /\ m_mutex.readers = Cardinality(Readers)
    /\ m_mutex.writer =
          ( Writers # {} \/ \E t \in Threads : pc[t]["outer"] = "upgSpin" )
    /\ ( \A t \in Threads : pc[t]["outer"] \notin {"upgSpin", "upgSlow"} ) =>
          ~m_mutex.pending

\* C9 : acquire (or a successful tryAcquire) followed by release leaves the
\* TaskMutex as it was : after every step the internal lock is exactly what
\* the ScopedLocks still holding it make it, so a released lock leaves no
\* trace, and the steps that take or release a lock leave m_executionState
\* and the ExecutionStates alone.
C9_Step ==
    /\ MutexMatchesHolders'
    /\ \A h \in Handles :
          lock'[h[1]][h[2]].m_mutex # lock[h[1]][h[2]].m_mutex =>
             /\ m_executionState' = m_executionState
             /\ executionStates' = executionStates

C9_AcquireReleaseRoundTrip == [][C9_Step]_vars

\* A write lock has been acquired and released, no execute was called, and
\* the mutex is as it was made.
C9_Witness ==
    /\ \A h \in Handles : pc[h[1]][h[2]] = "idle" /\ ~lock[h[1]][h[2]].m_mutex
    /\ \E t \in Threads : lock[t]["outer"].m_writer
    /\ created = 0
    /\ m_mutex = InternalMutex
    /\ m_executionState = None

\* C10 : the writer clears m_executionState only after every task of its
\* task group has completed, and when execute has returned on the writer the
\* slot is none.
C10_Step ==
    /\ ( m_executionState # None /\ m_executionState' = None ) =>
          /\ executionStates[m_executionState].pending = 0
          /\ executionStates[m_executionState].running = 0
          /\ \A t \in Threads : task[t] # m_executionState
    /\ \A t \in Threads :
          ( pc'[t]["outer"] = "held" /\ loc'[t]["outer"].ret = "executed" ) =>
             m_executionState' = None

C10_ClearedAfterTasks == [][C10_Step]_vars

\* execute has returned on the writer while a donor that helped is still in
\* the arena.
C10_Witness ==
    \E t \in Threads :
       /\ pc[t]["outer"] = "held"
       /\ loc[t]["outer"].ret = "executed"
       /\ m_executionState = None
       /\ \E u \in Threads : u # t /\ pc[u]["outer"] = "donate"

\* The call of acquire() on the ScopedLock has not returned yet.
Acquiring(t, f) ==
    /\ loc[t][f].blocking
    /\ pc[t][f] \in {"try", "msxWait", "inspect", "arenaEnter", "donate"}

\* acquire() has returned on the ScopedLock with the lock held as asked :
\* in the mode asked for, or as a recursive grant.
Acquired(t, f, write) ==
    /\ pc[t][f] = "held"
    /\ lock[t][f].m_mutex
    /\ \/ lock[t][f].m_lock /\ lock[t][f].m_writer = write
       \/ lock[t][f].m_recursive

\* A thread in acquire with acceptWork=false is only ever at the steps of
\* acquireOr that come before the arena, is in the thread set of no observer
\* and runs no task.
C7_NeverJoinsArena ==
    \A h \in Handles :
       ( Acquiring(h[1], h[2]) /\ ~loc[h[1]][h[2]].acceptWork ) =>
          /\ pc[h[1]][h[2]] \in {"try", "msxWait", "inspect"}
          /\ h[2] = "outer" =>
                /\ task[h[1]] = None
                /\ \A s \in StateIds : ~containsThisThread(s, h[1])

\* Every acquire with acceptWork=false returns with the lock held as asked.
C7_EventuallyAcquires ==
    \A h \in Handles : \A write \in BOOLEAN :
       ( /\ Acquiring(h[1], h[2])
         /\ ~loc[h[1]][h[2]].acceptWork
         /\ loc[h[1]][h[2]].write = write )
       ~> Acquired(h[1], h[2], write)

C8_Step ==
    \A h \in Handles :
       LET t == h[1]
           f == h[2]
       IN  ( Acquiring(t, f) /\ loc[t][f].acceptWork ) =>
              /\ ~Acquiring(t, f)' =>
                    /\ pc'[t][f] = "held"
                    /\ lock'[t][f].m_mutex
                    /\ lock'[t][f].m_lock \/ lock'[t][f].m_recursive
              /\ ( /\ pc[t][f] = "inspect"
                   /\ pc'[t][f] # "inspect"
                   /\ m_executionState # None
                   /\ ~containsThisThread(m_executionState, t) ) =>
                    /\ pc'[t][f] = "arenaEnter"
                    /\ loc'[t][f].executionState = m_executionState
              /\ ( pc[t][f] = "arenaEnter" /\ pc'[t][f] # "arenaEnter" ) =>
                    /\ pc'[t][f] = "donate"
                    /\ containsThisThread(loc[t][f].executionState, t)'
              /\ ( pc[t][f] = "donate" /\ pc'[t][f] # "donate" ) =>
                    /\ pc'[t][f] = "try"
                    /\ executionStates[loc[t][f].executionState].pending = 0
                    /\ executionStates[loc[t][f].executionState].running = 0

\* Every acquire with acceptWork=true returns with the lock held as asked,
\* and every execute comes to its end.
C8_EventuallyReturns ==
    /\ \A h \in Handles : \A write \in BOOLEAN :
          ( /\ Acquiring(h[1], h[2])
            /\ loc[h[1]][h[2]].acceptWork
            /\ loc[h[1]][h[2]].write = write )
          ~> Acquired(h[1], h[2], write)
    /\ \A t \in Threads : InExecute(t) ~> ~InExecute(t)

Upgrading(t) == pc[t]["outer"] \in {"upgSpin", "upgSlow"}

\* C11 : upgradeToWriter on a lock held as a non-recursive reader returns,
\* with true or with false, with the handle holding the internal lock in
\* write mode, alone, and with m_writer set; and it returns true only after
\* having kept its read access all along, during which no other ScopedLock
\* held the lock in write mode.
C11_Step ==
    \A t \in Threads :
       /\ ( Upgrading(t) /\ ~Upgrading(t)' ) =>
             /\ pc'[t]["outer"] = "held"
             /\ lock'[t]["outer"].m_mutex
             /\ lock'[t]["outer"].m_lock
             /\ lock'[t]["outer"].m_writer
             /\ ~lock'[t]["outer"].m_recursive
             /\ Writers' = { << t, "outer" >> }
             /\ Readers' = {}
             /\ m_mutex'.writer /\ m_mutex'.readers = 0
             /\ loc'[t]["outer"].ret =
                   ( IF pc[t]["outer"] = "upgSpin" THEN "upgraded"
                                                  ELSE "reacquired" )
       /\ ( ~Upgrading(t) /\ pc'[t]["outer"] = "upgSpin" ) =>
             HoldsRead(t, "outer") /\ ~lock[t]["outer"].m_recursive
       /\ pc[t]["outer"] = "upgSpin" => pc'[t]["outer"] \in {"upgSpin", "held"}
       /\ ( pc[t]["outer"] = "upgSpin" =>
               HoldsRead(t, "outer") /\ m_mutex.readers >= 1 )'
       /\ ( HoldsRead(t, "outer") => Writers = {} )'

C11_UpgradeEndsAsWriter == [][C11_Step]_vars

\* upgradeToWriter has returned false on a handle that now holds the write
\* lock, after another reader had upgraded in place.
C11_Witness ==
    \E t, u \in Threads :
       /\ t # u
       /\ pc[t]["outer"] = "held"
       /\ loc[t]["outer"].ret = "reacquired"
       /\ HoldsWrite(t, "outer")
       /\ pc[u]["outer"] = "idle"
       /\ lock[u]["outer"].m_writer

\* The steps of two upgrades that race : the upgrade called while no other is
\* under way takes the in-place route, the one called while another holds
\* the in-place route gives up its read lock; the in-place route returns
\* true and the other false; the write locks they end with never overlap.
C12_Step ==
    /\ \A t \in Threads :
          /\ ( ~Upgrading(t) /\ Upgrading(t)' ) =>
                /\ ( \A u \in Threads \ {t} : ~Upgrading(u) ) =>
                       pc'[t]["outer"] = "upgSpin"
                /\ ( \E u \in Threads \ {t} : pc[u]["outer"] = "upgSpin" ) =>
                       pc'[t]["outer"] = "upgSlow"
          /\ ( pc[t]["outer"] = "upgSpin" /\ pc'[t]["outer"] # "upgSpin" ) =>
                loc'[t]["outer"].ret = "upgraded"
          /\ ( pc[t]["outer"] = "upgSlow" /\ pc'[t]["outer"] # "upgSlow" ) =>
                loc'[t]["outer"].ret = "reacquired"
    /\ Cardinality({ t \in Threads : pc'[t]["outer"] = "upgSpin" }) <= 1
    /\ Cardinality(Writers') <= 1

\* C12 : when two threads that hold read locks both call upgradeToWriter,
\* exactly one call returns true and the other false, the write locks they
\* end with do not overlap, and under fair scheduling both calls return.
C12_UpgradeRace ==
    /\ [][C12_Step]_vars
    /\ \A t \in Threads :
          Upgrading(t) ~> ( pc[t]["outer"] = "held" /\ HoldsWrite(t, "outer") )

\* Two readers are both inside upgradeToWriter : one waits in place for the
\* other, which has given up its read lock.
C12_Witness ==
    \E t, u \in Threads :
       /\ pc[t]["outer"] = "upgSpin"
       /\ pc[u]["outer"] = "upgSlow"
       /\ m_mutex.readers = 1

\* Thread t has entered the arena of state s for scheduling and has not left
\* it : as the writer through execute(), as a donor through acquireOr(), or
\* as a worker of the TBB pool.
InArena(t, s) ==
    \/ pc[t]["outer"] = "exWait" /\ m_executionState = s
    \/ \E f \in Frames :
          pc[t][f] = "donate" /\ loc[t][f].executionState = s
    \/ pc[t]["outer"] = "worker" /\ loc[t]["outer"].executionState = s

\* The thread set of every observer holds the threads inside its arena.
ThreadIdSetMatchesArena ==
    \A s \in StateIds :
       IF executionStates[s].alive
          THEN executionStates[s].m_threadIdSet =
                  { t \in Threads : InArena(t, s) }
          ELSE executionStates[s].m_threadIdSet = {}

\* C13 : the thread set of an ArenaObserver holds a thread exactly while the
\* thread is inside the observed arena; a thread enters only an arena whose
\* set does not hold it and leaves only one whose set holds it, so the
\* asserts of on_scheduler_entry and on_scheduler_exit never fail : the only
\* assert that can fail is the one of execute() on m_executionState.
C13_Step ==
    /\ ThreadIdSetMatchesArena'
    /\ \A s \in StateIds : \A t \in Threads :
          /\ ( ~InArena(t, s) /\ InArena(t, s)' ) =>
                ~containsThisThread(s, t)
          /\ ( InArena(t, s) /\ ~InArena(t, s)' /\ executionStates[s].alive ) =>
                containsThisThread(s, t)
    /\ ( ~assertFailed /\ assertFailed' ) =>
          \E t \in Threads :
             /\ pc[t]["outer"] = "exPublish"
             /\ pc'[t]["outer"] = "exEnter"
             /\ m_executionState # None

C13_ThreadSetTracksArena == [][C13_Step]_vars

\* The writer, a donor and a worker of the pool are all inside the arena of
\* the published state.
C13_Witness ==
    \E w, d, k \in Threads :
       /\ pc[w]["outer"] = "exWait"
       /\ pc[d]["outer"] = "donate"
       /\ pc[k]["outer"] = "worker"
       /\ m_executionState # None
       /\ executionStates[m_executionState].m_threadIdSet = {w, d, k}

\* The next step of the call on lock[t][f] reads or writes m_executionState :
\* acquireOr at lines 243, 253 and 261, execute at lines 167 and 168, at
\* lines 171, 177 and 178 and at line 183.
AccessesExecutionState(t, f) ==
    \/ pc[t][f] = "inspect"
    \/ f = "outer" /\ pc[t][f] \in {"exPublish", "exEnter", "exWait", "exClear"}

\* C14 : every access to m_executionState, by the writer inside execute or by
\* a thread in acquireOr, is made by a thread that holds
\* m_executionStateMutex.
C14_AccessUnderMutex ==
    \A h \in Handles :
       AccessesExecutionState(h[1], h[2]) => m_executionStateMutex = h[1]

\* C14, amended : every write of m_executionState and every read of it in
\* acquireOr is made by a thread that holds m_executionStateMutex; the
\* writer's reads inside execute, between publishing and clearing, are made
\* without it, while the writer holds the internal lock in write mode and no
\* other thread is in the part of execute that writes the slot.
C14_Step ==
    /\ m_executionState' # m_executionState =>
          \E t \in Threads :
             /\ m_executionStateMutex = t
             /\ pc[t]["outer"] \in {"exPublish", "exClear"}
             /\ pc'[t]["outer"] # pc[t]["outer"]
    /\ \A h \in Handles :
          ( pc[h[1]][h[2]] \in {"inspect", "exPublish", "exClear"} =>
               m_executionStateMutex = h[1] )'
    /\ \A t \in Threads :
          /\ pc[t]["outer"] \in {"exEnter", "exWait"} =>
                m_executionState' = m_executionState
          /\ ( pc[t]["outer"] \in {"exEnter", "exWait"} =>
                  /\ HoldsWrite(t, "outer")
                  /\ m_executionStateMutex # t \/ pc[t]["inner"] = "inspect"
                  /\ \A u \in Threads \ {t} :
                        pc[u]["outer"] \notin
                           {"exPublish", "exEnter", "exWait", "exClear"} )'

C14_WritesAndDonorReadsUnderMutex == [][C14_Step]_vars

\* The writer is about to read m_executionState at line 171 while another
\* thread, in acquireOr, holds m_executionStateMutex to read it.
C14_Witness ==
    \E w, t \in Threads :
       /\ pc[w]["outer"] = "exEnter"
       /\ pc[t]["outer"] = "inspect"
       /\ m_executionStateMutex = t
       /\ m_executionState # None

\* The donors that hold a copy of the shared pointer to state s : from the
\* copy at line 261 to the return of acquireOr.
DonorsOf(s) ==
    { h \in Handles : /\ pc[h[1]][h[2]] \in {"arenaEnter", "donate"}
                      /\ loc[h[1]][h[2]].executionState = s }

\* C15 : an ExecutionState is alive while m_executionState refers to it or a
\* donor holds a copy of the shared pointer; its use count is the number of
\* those references and it is destroyed only by the drop of the last one; a
\* donor that entered through a copy leaves the arena of a live state and
\* returns false, whatever m_executionState has become meanwhile.
C15_Step ==
    /\ \A s \in StateIds :
          /\ ( ( m_executionState = s \/ DonorsOf(s) # {} ) =>
                  executionStates[s].alive )'
          /\ ( executionStates[s].refs =
                  Cardinality(DonorsOf(s)) +
                     ( IF m_executionState = s THEN 1 ELSE 0 ) )'
          /\ ( executionStates[s].alive /\ ~executionStates'[s].alive ) =>
                /\ executionStates[s].refs = 1
                /\ m_executionState' # s
                /\ DonorsOf(s)' = {}
    /\ \A h \in Handles :
          LET t == h[1]
              f == h[2]
          IN  ( pc[t][f] = "donate" /\ pc'[t][f] # "donate" ) =>
                 /\ executionStates[loc[t][f].executionState].alive
                 /\ pc'[t][f] \in {"try", "idle"}
                 /\ ~lock'[t][f].m_mutex
                 /\ loc'[t][f].executionState = None

C15_StateOutlivesDonors == [][C15_Step]_vars

\* A donor is inside the arena of a state it copied before the writer
\* cleared the slot, and another ExecutionState has been published since.
C15_Witness ==
    \E t \in Threads :
       /\ pc[t]["outer"] = "donate"
       /\ m_executionState # None
       /\ loc[t]["outer"].executionState # m_executionState
       /\ executionStates[loc[t]["outer"].executionState].alive
       /\ executionStates[loc[t]["outer"].executionState].refs = 1

\* The call of acquireOr on lock[t][f] has not returned : acquire() and
\* tryAcquire() are in their call of it.
InAcquireOr(t, f) ==
    pc[t][f] \in {"try", "msxWait", "inspect", "arenaEnter", "donate"}

\* The step calls workNotifier : it is the step of acquireOr made under
\* m_executionStateMutex, when recursion is not granted (lines 253-254).
NotifierCalled(t, f) ==
    /\ pc[t][f] = "inspect"
    /\ pc'[t][f] # "inspect"
    /\ ~( m_executionState # None /\ containsThisThread(m_executionState, t) )

\* C16 : acquireOr calls workNotifier once in a call that neither acquires
\* the internal lock nor is granted recursion, with workAvailable =
\* ( m_executionState # none ), and never in a call that returns true; it
\* joins the arena exactly when workNotifier returned true and work was
\* available; after donating it returns false with the handle idle and the
\* internal lock untouched, even if the lock has become free.
C16_Step ==
    \A h \in Handles :
       LET t == h[1]
           f == h[2]
           workAvailable == m_executionState # None
           accepted == loc[t][f].acceptWork
       IN  InAcquireOr(t, f) =>
              \* a call that returns true has not called workNotifier
              /\ pc'[t][f] = "held" =>
                    /\ pc[t][f] \in {"try", "inspect"}
                    /\ ~NotifierCalled(t, f)
                    /\ lock'[t][f].m_mutex
              \* the call is made once : in the one step under
              \* m_executionStateMutex unless recursion is granted, and
              \* that step is never gone back to within the call
              /\ ( pc[t][f] = "inspect" /\ pc'[t][f] \notin {"inspect", "held"} ) =>
                    NotifierCalled(t, f)
              /\ pc[t][f] \in {"arenaEnter", "donate"} =>
                    pc'[t][f] \notin {"msxWait", "inspect", "held"}
              /\ pc'[t][f] = "inspect" => pc[t][f] \in {"msxWait", "inspect"}
              \* the arena is joined iff the notifier accepted available work
              /\ NotifierCalled(t, f) =>
                    /\ pc'[t][f] = "arenaEnter" <=> ( accepted /\ workAvailable )
                    /\ pc'[t][f] = "arenaEnter" =>
                          loc'[t][f].executionState = m_executionState
                    /\ pc'[t][f] # "arenaEnter" =>
                          /\ pc'[t][f] = IF loc[t][f].blocking THEN "try" ELSE "idle"
                          /\ ~lock'[t][f].m_mutex
              /\ ( pc[t][f] # "arenaEnter" /\ pc'[t][f] = "arenaEnter" ) =>
                    NotifierCalled(t, f)
              /\ pc'[t][f] = "donate" => pc[t][f] \in {"arenaEnter", "donate"}
              \* after donating, false is returned and nothing was locked
              /\ ( pc[t][f] = "donate" /\ pc'[t][f] # "donate" ) =>
                    /\ pc'[t][f] = IF loc[t][f].blocking THEN "try" ELSE "idle"
                    /\ ~loc[t][f].blocking => loc'[t][f].ret = "false"
                    /\ ~lock'[t][f].m_mutex
                    /\ ~lock'[t][f].m_lock
                    /\ m_mutex' = m_mutex

C16_NotifierCalledOnce == [][C16_Step]_vars

\* A client that called acquireOr itself, with a notifier that returned
\* true, has finished waiting on the task group while the internal lock has
\* become free : acquireOr is about to return false all the same.
C16_Witness ==
    \E t \in Threads :
       /\ pc[t]["outer"] = "donate"
       /\ ~loc[t]["outer"].blocking
       /\ loc[t]["outer"].acceptWork
       /\ executionStates[loc[t]["outer"].executionState].pending = 0
       /\ executionStates[loc[t]["outer"].executionState].running = 0
       /\ m_mutex = InternalMutex

\* C17 : the steps that grant a recursive lock and those that release one
\* leave the internal mutex as it is : the writer inside execute still holds
\* it in write mode and the reader count stays 0, whatever the number of
\* threads taking and releasing recursive grants.
C17_Step ==
    \A h \in Handles :
       ( HoldsRecursive(h[1], h[2]) # HoldsRecursive(h[1], h[2])' ) =>
          /\ m_mutex' = m_mutex
          /\ m_mutex'.writer /\ m_mutex'.readers = 0
          /\ lock'[h[1]][h[2]].m_lock = lock[h[1]][h[2]].m_lock
          /\ ~lock'[h[1]][h[2]].m_lock
          /\ \E w \in Threads :
                /\ pc'[w]["outer"] = "exWait"
                /\ HoldsWrite(w, "outer")'

C17_RecursionLeavesLockAlone == [][C17_Step]_vars

\* One thread has released its recursive grant while another still holds
\* one, and the writer is inside execute.
C17_Witness ==
    \E t, u \in Threads :
       /\ t # u
       /\ HoldsRecursive(t, "inner")
       /\ lock[u]["inner"].m_recursive
       /\ ~lock[u]["inner"].m_mutex
       /\ task[u] # None
       /\ m_mutex.writer /\ m_mutex.readers = 0

\* The preconditions of execute() and upgradeToWriter(), asserted at lines
\* 164 and 154.
executePrecondition(l) == l.m_mutex /\ l.m_writer /\ ~l.m_recursive
upgradeToWriterPrecondition(l) == l.m_mutex /\ ~l.m_writer /\ ~l.m_recursive

\* C18 : a recursive grant is a shared-mode grant whatever mode was asked
\* for : the step that grants recursion leaves the handle with m_recursive
\* set, m_writer unset and the internal guard unheld, several threads may
\* hold such grants at once, and a handle with a recursive grant meets the
\* precondition neither of execute nor of upgradeToWriter.
C18_Step ==
    /\ \A h \in Handles :
          ( pc[h[1]][h[2]] = "inspect" /\ pc'[h[1]][h[2]] = "held" ) =>
             /\ lock'[h[1]][h[2]].m_mutex
             /\ lock'[h[1]][h[2]].m_recursive
             /\ ~lock'[h[1]][h[2]].m_writer
             /\ ~lock'[h[1]][h[2]].m_lock
             /\ \A g \in Handles \ {h} :
                   HoldsRecursive(g[1], g[2])' = HoldsRecursive(g[1], g[2])
    /\ \A h \in Handles :
          ( HoldsRecursive(h[1], h[2]) =>
               /\ ~lock[h[1]][h[2]].m_writer
               /\ ~executePrecondition(lock[h[1]][h[2]])
               /\ ~upgradeToWriterPrecondition(lock[h[1]][h[2]]) )'

C18_RecursiveGrantIsShared == [][C18_Step]_vars

\* A thread holds a recursive grant while another, which asked for a write
\* lock, is about to be granted recursion.
C18_Witness ==
    \E t, u \in Threads :
       /\ t # u
       /\ HoldsRecursive(t, "inner")
       /\ pc[u]["inner"] = "inspect"
       /\ loc[u]["inner"].write
       /\ m_executionState # None
       /\ containsThisThread(m_executionState, u)

\* The thread waits on a task group : it is inside an arena, in
\* taskGroup.wait() or as a pool worker, and runs no task.
WaitsOnTaskGroup(t) ==
    /\ \E f \in Frames : pc[t][f] \in {"donate", "exWait", "worker"}
    /\ task[t] = None

\* C19 : no thread holds m_executionStateMutex while it is inside an arena,
\* running the closure or a task, or waiting on a task group.
C19_NoMutexInArena ==
    \A t \in Threads :
       m_executionStateMutex = t =>
          /\ \A f \in Frames : pc[t][f] \notin {"donate", "exWait", "worker"}
          /\ task[t] = None

\* C19, amended : a thread holds m_executionStateMutex only in the sections
\* of acquireOr and execute that inspect or set the slot, never while it
\* enters an arena or waits on a task group; a thread inside an arena holds
\* it only while the task it runs is in such a section of a nested
\* acquireOr.  The holder can always go on and release it, so the writer's
\* last acquisition is not held up by a thread that waits for the task
\* group.
C19_MutexHeldOnlyInSections ==
    \A t \in Threads :
       m_executionStateMutex = t =>
          /\ \E f \in Frames : pc[t][f] \in {"inspect", "exPublish", "exClear"}
          /\ \A f \in Frames : pc[t][f] \notin {"arenaEnter", "exEnter"}
          /\ ~WaitsOnTaskGroup(t)
          /\ ( \E f \in Frames : pc[t][f] \in {"donate", "exWait", "worker"} ) =>
                pc[t]["inner"] = "inspect"
          /\ ENABLED ( Step(t) /\ m_executionStateMutex' = None )

\* A donor that runs a task holds m_executionStateMutex in a nested
\* acquireOr, while the writer waits on the task group.
C19_Witness ==
    \E t, w \in Threads :
       /\ m_executionStateMutex = t
       /\ pc[t]["outer"] = "donate"
       /\ task[t] # None
       /\ pc[t]["inner"] = "inspect"
       /\ pc[w]["outer"] = "exWait"
       /\ task[w] = None

\* ScopedLock::recursive()
recursive(l) == l.m_recursive

\* C20 : on a ScopedLock used for several acquire, tryAcquire and release
\* calls, recursive() is true exactly when the handle holds a recursive
\* grant; it is false whenever the handle is idle.
C20_RecursiveTracksGrant ==
    \A h \in Handles :
       /\ recursive(lock[h[1]][h[2]]) <=>
             ( lock[h[1]][h[2]].m_mutex /\ pc[h[1]][h[2]] = "held"
               /\ ~lock[h[1]][h[2]].m_lock )
       /\ ( pc[h[1]][h[2]] = "idle" /\ ~lock[h[1]][h[2]].m_mutex ) =>
             ~recursive(lock[h[1]][h[2]])
====
